---------------------------- MODULE Spec2Model ----------------------------
(***************************************************************************)
(* A model of pyimmatcher: the ordered-containment search of               *)
(* basic/collections.py, the result algebra of api/results.py and the      *)
(* assertion combinators of api/assertions.py.                             *)
(***************************************************************************)
EXTENDS Integers, Sequences, FiniteSets, TLC

\* Longest haystack handed to ContainsAllInOrder.test.
MaxHaystack == 5
\* Longest needle (first, *inner_seq) of a ContainsAllInOrder.
MaxNeedle == 3

\* The element values of haystacks and needles (compared with == and !=).
Elements == 1..4

VARIABLES
    actual,      \* collections.py: the haystack given to ContainsAllInOrder.test
    first,       \* ContainsAllInOrder.first
    inner_seq,   \* ContainsAllInOrder.inner_seq = (first, *inner_seq)
    iterator,    \* _contains_all_in_order: what `iterator` will still yield
    pc,          \* _contains_all_in_order: the line the search is at
    returned,    \* _contains_all_in_order: its return value, once returned
    heap,        \* the assertion objects, by reference
    cur,         \* the TestResult most recently built or returned
    last,        \* the operation that acted last, with its operands
    store        \* the result objects and their lists, by reference

searchVars == <<actual, first, inner_seq, iterator, pc, returned>>
resultVars == <<heap, cur, last, store>>
vars == <<actual, first, inner_seq, iterator, pc, returned, heap, cur, last, store>>

\* No result has been built and no operation has acted.
NoResult == [kind |-> "None"]
NoOp == [op |-> "none"]

\* All sequences over S of length lo..hi.
SeqsOf(S, lo, hi) == UNION {[1..n -> S] : n \in lo..hi}

Min(a, b) == IF a < b THEN a ELSE b

(***************************************************************************)
(* basic/collections.py: the ordered-containment search                    *)
(***************************************************************************)

\* _skip_until_element: drop elements while they differ from el, then yield
\* the matching element and the rest; yield nothing when no element matches.
RECURSIVE _skip_until_element(_, _)
_skip_until_element(seq, el) ==
    IF seq = <<>> THEN <<>>
    ELSE IF Head(seq) # el THEN _skip_until_element(Tail(seq), el)
    ELSE seq

\* _starts_with with the length check dropped: zip() stops at the shorter one.
StartsWithNoLengthCheck(super_seq, sub_seq) ==
    \A i \in 1..Min(Len(super_seq), Len(sub_seq)) : super_seq[i] = sub_seq[i]

\* _starts_with: super_seq (materialised by _generate) is at least as long as
\* sub_seq and agrees with it pairwise over zip(super_seq, sub_seq).
_starts_with(super_seq, sub_seq) ==
    IF Len(super_seq) < Len(sub_seq) THEN FALSE
    ELSE \A i \in 1..Min(Len(super_seq), Len(sub_seq)) : super_seq[i] = sub_seq[i]

\* ContainsAllInOrder(first, *rest).test(actual) has just called
\* _contains_all_in_order(actual, self.first, self.inner_seq); iter(actual) is taken.
InitSearch ==
    /\ actual \in SeqsOf(Elements, 0, MaxHaystack)
    /\ inner_seq \in SeqsOf(Elements, 1, MaxNeedle)
    /\ first = inner_seq[1]
    /\ iterator = actual
    /\ pc = "skip"
    /\ returned = "none"
    /\ heap = <<>>
    /\ cur = NoResult
    /\ last = NoOp
    /\ store = <<>>

\* line 46: iterator = _skip_until_element(iterator, first)
SkipUntilElement ==
    /\ pc = "skip"
    /\ iterator' = _skip_until_element(iterator, first)
    /\ pc' = "tee"
    /\ UNCHANGED <<actual, first, inner_seq, returned, resultVars>>

\* The anchor is left where it is: the search goes back to
\* _skip_until_element without next(iterator).
NextIteratorStays ==
    /\ pc = "next"
    /\ pc' = "skip" /\ returned' = returned /\ iterator' = iterator
    /\ UNCHANGED <<actual, first, inner_seq, resultVars>>

\* The copy handed to _starts_with is the iterator itself: tuple() in _generate
\* uses it up.
TeeStartsWithConsumes ==
    /\ pc = "tee"
    /\ IF _starts_with(iterator, inner_seq)
       THEN pc' = "done" /\ returned' = "True"
       ELSE pc' = "next" /\ returned' = returned
    /\ iterator' = <<>>
    /\ UNCHANGED <<actual, first, inner_seq, resultVars>>

\* lines 47-49: tee the iterator; the copy is consumed by _starts_with, the
\* original still yields everything; return True when the copy starts with inner_seq.
TeeStartsWith ==
    /\ pc = "tee"
    /\ IF _starts_with(iterator, inner_seq)
       THEN pc' = "done" /\ returned' = "True"
       ELSE pc' = "next" /\ returned' = returned
    /\ UNCHANGED <<actual, first, inner_seq, iterator, resultVars>>

\* The failed anchor ends the search instead of being stepped over.
NextIteratorAborts ==
    /\ pc = "next"
    /\ pc' = "done" /\ returned' = "False"
    /\ UNCHANGED <<actual, first, inner_seq, iterator, resultVars>>

\* lines 52-54: next(iterator) steps over the anchor; StopIteration on an
\* exhausted iterator is caught and the search returns False.
NextIterator ==
    /\ pc = "next"
    /\ IF iterator = <<>>
       THEN pc' = "done" /\ returned' = "False" /\ iterator' = iterator
       ELSE pc' = "skip" /\ returned' = returned /\ iterator' = Tail(iterator)
    /\ UNCHANGED <<actual, first, inner_seq, resultVars>>

NextSearch == SkipUntilElement \/ TeeStartsWith \/ NextIterator

SpecSearch == InitSearch /\ [][NextSearch]_vars

(***************************************************************************)
(* basic/collections.py: the factory contains_all_in_order                 *)
(***************************************************************************)

\* Longest list handed to contains_all_in_order.
MaxItems == 2
\* Longest haystack tested against an assertion the factory built.
MaxFactoryHaystack == 3

\* The ints that occur in the lists and haystacks of the factory.
Ints == 1..2

\* A list of Ints as one value that can be an element of a haystack; the
\* values of different lists differ, and none is an int of Ints.
RECURSIVE ListCode(_)
ListCode(items) ==
    IF items = <<>> THEN 0 ELSE Head(items) + 3 * ListCode(Tail(items))
ListValue(items) == 10 + ListCode(items)

\* ContainsAllInOrder.__init__(first, *inner_seq)
ContainsAllInOrder(first_arg, rest) ==
    [first |-> first_arg, inner_seq |-> <<first_arg>> \o rest]

\* contains_all_in_order(items): ContainsAllInOrder(items), the list is the
\* one positional argument.
contains_all_in_order(items) == ContainsAllInOrder(ListValue(items), <<>>)

\* contains_all_in_order(items).test(actual) is about to search; the haystack
\* holds ints and possibly the list items itself as an element.
InitFactory ==
    /\ \E items \in SeqsOf(Ints, 0, MaxItems) :
          /\ actual \in SeqsOf(Ints \cup {ListValue(items)}, 0, MaxFactoryHaystack)
          /\ first = contains_all_in_order(items).first
          /\ inner_seq = contains_all_in_order(items).inner_seq
          /\ last = [op |-> "contains_all_in_order", items |-> items]
    /\ iterator = actual
    /\ pc = "skip"
    /\ returned = "none"
    /\ heap = <<>>
    /\ cur = NoResult
    /\ store = <<>>

SpecFactory == InitFactory /\ [][NextSearch]_vars

\* Longest haystack and longest needle of the searches followed to their end.
MaxCursorHaystack == 3
MaxCursorNeedle == 2

\* The element values of those searches.
CursorElements == 1..2

\* _contains_all_in_order has just been called; the loop of lines 45-52 runs
\* on, one statement after the other, until it returns.
InitCursor ==
    /\ actual \in SeqsOf(CursorElements, 0, MaxCursorHaystack)
    /\ inner_seq \in SeqsOf(CursorElements, 1, MaxCursorNeedle)
    /\ first = inner_seq[1]
    /\ iterator = actual
    /\ pc = "skip"
    /\ returned = "none"
    /\ heap = <<>>
    /\ cur = NoResult
    /\ last = NoOp
    /\ store = <<>>

SpecCursor == InitCursor /\ [][NextSearch]_vars /\ WF_vars(NextSearch)

(***************************************************************************)
(* api/results.py: messages                                                *)
(*                                                                         *)
(* A rendered text is a sequence of tokens; "\n" is the only token that    *)
(* ends a line, every other token is a piece of one line.                  *)
(***************************************************************************)

NL == "\n"

\* results.py line 236: tab = '.  '
tab == ".  "

\* str.format: the k-th "{}" of the template is replaced by the k-th argument.
RECURSIVE format(_, _)
format(string, args) ==
    IF string = <<>> THEN <<>>
    ELSE IF Head(string) = "{}" /\ args # <<>>
         THEN <<Head(args)>> \o format(Tail(string), Tail(args))
         ELSE <<Head(string)>> \o format(Tail(string), args)

\* _to_str of an int: int defines __repr__, so repr(obj).
_to_str(obj) == ToString(obj)

\* make_message: the text the returned callable renders; without arguments the
\* string is returned as it is, otherwise it is formatted with the arguments
\* converted by _to_str when the message is made.
make_message(string, args) ==
    IF Len(args) = 0 THEN string
    ELSE format(string, [i \in 1..Len(args) |-> _to_str(args[i])])

\* The pieces of a text put together again, by halves.
RECURSIVE Concat(_)
Concat(pieces) ==
    IF pieces = <<>> THEN <<>>
    ELSE IF Len(pieces) = 1 THEN pieces[1]
    ELSE LET half == Len(pieces) \div 2
         IN  Concat(SubSeq(pieces, 1, half)) \o Concat(SubSeq(pieces, half + 1, Len(pieces)))

\* The rest of textwrap.indent: the prefix goes after every line end that is
\* followed by more text.
IndentRest(text) ==
    Concat([i \in 1..Len(text) |->
               IF text[i] = NL /\ i < Len(text) THEN <<NL, tab>> ELSE <<text[i]>>])

\* tabbed: indent(not_tabbed, tab, lambda _: True), every line prefixed with tab;
\* the empty text has no line.
tabbed(not_tabbed) ==
    IF not_tabbed = <<>> THEN <<>> ELSE <<tab>> \o IndentRest(not_tabbed)

\* str.join
RECURSIVE join(_, _)
join(sep, texts) ==
    IF texts = <<>> THEN <<>>
    ELSE IF Len(texts) = 1 THEN texts[1]
    ELSE texts[1] \o sep \o join(sep, Tail(texts))

\* The builtin all(): the first false item decides.
RECURSIVE all(_)
all(items) ==
    IF items = <<>> THEN TRUE
    ELSE IF ~Head(items) THEN FALSE ELSE all(Tail(items))

\* The builtin any(): the first true item decides.
RECURSIVE any(_)
any(items) ==
    IF items = <<>> THEN FALSE
    ELSE IF Head(items) THEN TRUE ELSE any(Tail(items))

(***************************************************************************)
(* api/results.py: the results                                             *)
(***************************************************************************)

BasicResult(p, failure, negated) ==
    [kind |-> "BasicResult", passed |-> p,
     failure_message |-> failure, negated_message |-> negated]

NegatedResult(original) == [kind |-> "NegatedResult", original |-> original]

PrefacedResult(inner_result, msg, prop) ==
    [kind |-> "PrefacedResult", inner |-> inner_result, msg |-> msg, prop |-> prop]

AllOfTestResult(results) == [kind |-> "AllOfTestResult", results |-> results]

AnyOfTestResult(results) == [kind |-> "AnyOfTestResult", results |-> results]

NoneOfTestResult(results) == [kind |-> "NoneOfTestResult", results |-> results]

RECURSIVE passed(_)
RECURSIVE failure_message(_)
RECURSIVE negated_message(_)

\* The passed of each child, in list order.
PassedOfEach(results) == [i \in 1..Len(results) |-> passed(results[i])]

\* AllOfTestResult.passed
AllOfTestResult_passed(r) == all(PassedOfEach(r.results))

\* AnyOfTestResult.passed
AnyOfTestResult_passed(r) == any(PassedOfEach(r.results))

\* NoneOfTestResult.passed with all() in the place of any().
NoneOfPassedNotAll(r) == ~all(PassedOfEach(r.results))

\* NoneOfTestResult.passed
NoneOfTestResult_passed(r) == ~any(PassedOfEach(r.results))

\* NegatedResult.failure_message
NegatedResult_failure_message(r) == negated_message(r.original)

\* NegatedResult.negated_message
NegatedResult_negated_message(r) == failure_message(r.original)

\* MultiTestResult.failure_message without its filter: every child's failure
\* message.
FailureMessageOfEvery(r) ==
    join(<<NL, "AND ">>, [i \in 1..Len(r.results) |-> failure_message(r.results[i])])

\* MultiTestResult.failure_message: the failed children's failure messages.
MultiTestResult_failure_message(r) ==
    LET failed == SelectSeq(r.results, LAMBDA c : ~passed(c))
    IN  join(<<NL, "AND ">>, [i \in 1..Len(failed) |-> failure_message(failed[i])])

\* MultiTestResult.negated_message: the passed children's negated messages.
MultiTestResult_negated_message(r) ==
    LET ok == SelectSeq(r.results, LAMBDA c : passed(c))
    IN  join(<<NL, "AND ">>, [i \in 1..Len(ok) |-> negated_message(ok[i])])

\* PrefacedResult: msg.format(inner=tabbed(<inner text>), **kwargs) with the
\* template 'for property "{prop}":\n{inner}' of HasPropertyThat._test_value.
PrefacedFormat(msg, inner_text, prop) ==
    [i \in 1..Len(msg) |-> IF msg[i] = "{prop}" THEN prop ELSE msg[i]]
        \o tabbed(inner_text)

passed(r) ==
    CASE r.kind = "BasicResult" -> r.passed
      [] r.kind = "NegatedResult" -> ~passed(r.original)
      [] r.kind = "PrefacedResult" -> passed(r.inner)
      [] r.kind = "AllOfTestResult" -> AllOfTestResult_passed(r)
      [] r.kind = "AnyOfTestResult" -> AnyOfTestResult_passed(r)
      [] r.kind = "NoneOfTestResult" -> NoneOfTestResult_passed(r)

failure_message(r) ==
    CASE r.kind = "BasicResult" -> r.failure_message
      [] r.kind = "NegatedResult" -> NegatedResult_failure_message(r)
      [] r.kind = "PrefacedResult" ->
            PrefacedFormat(r.msg, failure_message(r.inner), r.prop)
      [] r.kind = "AllOfTestResult" ->
            <<"Some assertions failed:", NL>>
                \o tabbed(MultiTestResult_failure_message(r))
      [] r.kind = "AnyOfTestResult" ->
            <<"Every assertion failed: ", NL>>
                \o tabbed(MultiTestResult_failure_message(r))
      [] r.kind = "NoneOfTestResult" ->
            <<"Some assertions passed:", NL>>
                \o tabbed(MultiTestResult_negated_message(r))

negated_message(r) ==
    CASE r.kind = "BasicResult" -> r.negated_message
      [] r.kind = "NegatedResult" -> NegatedResult_negated_message(r)
      [] r.kind = "PrefacedResult" ->
            PrefacedFormat(r.msg, negated_message(r.inner), r.prop)
      [] r.kind = "AllOfTestResult" ->
            <<"Every assertion passed when at least one was expected to fail">>
      [] r.kind = "AnyOfTestResult" ->
            <<"Some assertions passed: ", NL>>
                \o tabbed(MultiTestResult_negated_message(r))
      [] r.kind = "NoneOfTestResult" ->
            <<"Every assertion failed: ", NL>>
                \o tabbed(MultiTestResult_failure_message(r))

\* TestResult.failed
failed(r) == ~passed(r)

\* NoneOfTestResult.__invert__ left to TestResult.__invert__.
NoneOfInvertWraps(r) == NegatedResult(r)

\* AnyOfTestResult.__invert__: the none-of result over the same list.
AnyOfTestResult_invert(r) == NoneOfTestResult(r.results)

\* NoneOfTestResult.__invert__: the any-of result over the same list.
NoneOfTestResult_invert(r) == AnyOfTestResult(r.results)

\* ~result: TestResult.__invert__ and its overrides.
invert(r) ==
    CASE r.kind = "NegatedResult" -> r.original
      [] r.kind = "AnyOfTestResult" -> AnyOfTestResult_invert(r)
      [] r.kind = "NoneOfTestResult" -> NoneOfTestResult_invert(r)
      [] OTHER -> NegatedResult(r)

\* negate(result)
negate(r) == NegatedResult(r)

\* IsEqualTo(other).test(actual)
IsEqualTo_test(other, act) ==
    BasicResult(act = other,
        make_message(<<"{}", " is not equal to ", "{}">>, <<act, other>>),
        make_message(<<"{}", " is equal to ", "{}">>, <<act, other>>))

(***************************************************************************)
(* Building results: leaf results from IsEqualTo(1), wrapped and composed   *)
(***************************************************************************)

\* Deepest nesting of a result built in ResultSpec.
MaxDepth == 2
\* Longest child list of a composite result built in ResultSpec.
MaxResults == 2

\* The subjects tested against IsEqualTo(1): one passes, one fails.
LeafSubjects == 1..2

LeafResults == {IsEqualTo_test(1, a) : a \in LeafSubjects}

RECURSIVE Depth(_)
SeqMax(ns) == IF ns = <<>> THEN 0 ELSE CHOOSE m \in {ns[i] : i \in 1..Len(ns)} :
                                           \A i \in 1..Len(ns) : ns[i] <= m
Depth(r) ==
    CASE r.kind = "BasicResult" -> 0
      [] r.kind = "NegatedResult" -> 1 + Depth(r.original)
      [] r.kind = "PrefacedResult" -> 1 + Depth(r.inner)
      [] OTHER -> 1 + SeqMax([i \in 1..Len(r.results) |-> Depth(r.results[i])])

SearchIdle ==
    /\ actual = <<>> /\ inner_seq = <<>> /\ first = 0
    /\ iterator = <<>> /\ pc = "idle" /\ returned = "none"

\* A leaf assertion has been tested: IsEqualTo(1).test(a).
InitResults ==
    /\ SearchIdle
    /\ heap = <<>>
    /\ cur \in LeafResults
    /\ last = [op |-> "test", arg |-> cur]
    /\ store = <<>>

\* The child lists a composite is built from: every list of fresh leaf results
\* and the current result that holds the current result, and the empty list
\* (a list of leaf results alone, and the empty list, are built from a state
\* whose result is a leaf). A composite over the current result is one level
\* deeper than it.
ChildLists ==
    (IF cur.kind = "BasicResult" THEN {<<>>} ELSE {})
    \cup (IF Depth(cur) < MaxDepth
          THEN {results \in SeqsOf(LeafResults \cup {cur}, 1, MaxResults) :
                   \E i \in 1..Len(results) : results[i] = cur}
          ELSE {})

ComposeAllOf ==
    /\ \E results \in ChildLists :
          /\ cur' = AllOfTestResult(results)
          /\ last' = [op |-> "AllOfTestResult", arg |-> results]
    /\ UNCHANGED <<searchVars, heap, store>>

ComposeAnyOf ==
    /\ \E results \in ChildLists :
          /\ cur' = AnyOfTestResult(results)
          /\ last' = [op |-> "AnyOfTestResult", arg |-> results]
    /\ UNCHANGED <<searchVars, heap, store>>

ComposeNoneOf ==
    /\ \E results \in ChildLists :
          /\ cur' = NoneOfTestResult(results)
          /\ last' = [op |-> "NoneOfTestResult", arg |-> results]
    /\ UNCHANGED <<searchVars, heap, store>>

\* negate(cur)
Negate ==
    /\ Depth(cur) < MaxDepth
    /\ cur' = negate(cur)
    /\ last' = [op |-> "negate", arg |-> cur]
    /\ UNCHANGED <<searchVars, heap, store>>

\* ~cur
Invert ==
    /\ Depth(invert(cur)) <= MaxDepth
    /\ cur' = invert(cur)
    /\ last' = [op |-> "invert", arg |-> cur]
    /\ UNCHANGED <<searchVars, heap, store>>

\* cur.prefaced_with('for property "{prop}":\n{inner}', prop=...)
PrefacedWith ==
    /\ Depth(cur) < MaxDepth
    /\ cur' = PrefacedResult(cur, <<"for property \"", "{prop}", "\":", NL>>, "x")
    /\ last' = [op |-> "prefaced_with", arg |-> cur]
    /\ UNCHANGED <<searchVars, heap, store>>

NextResults ==
    \/ ComposeAllOf
    \/ ComposeAnyOf
    \/ ComposeNoneOf
    \/ Negate
    \/ Invert
    \/ PrefacedWith

SpecResults == InitResults /\ [][NextResults]_vars

(***************************************************************************)
(* api/assertions.py: the assertions                                       *)
(*                                                                         *)
(* Assertions are objects with identity: heap[a] is the object with        *)
(* reference a. The combinators hold lists of references, and and_ / or_   *)
(* change such a list in place.                                            *)
(***************************************************************************)

\* basic/core.py IsEqualTo(other)
IsEqualTo(other) == [kind |-> "IsEqualTo", other |-> other]

\* AllOfAssertion.__init__: self.assertions = list(assertions)
AllOfAssertion(assertions) == [kind |-> "AllOfAssertion", assertions |-> assertions]

\* AnyOfAssertion.__init__: self.assertions = list(assertions)
AnyOfAssertion(assertions) == [kind |-> "AnyOfAssertion", assertions |-> assertions]

\* SimpleNegatedAssertion.__init__: self.assertion = assertion
SimpleNegatedAssertion(assertion) ==
    [kind |-> "SimpleNegatedAssertion", assertion |-> assertion]

\* basic/core.py HasProperty(prop_name)
HasProperty(prop_name) == [kind |-> "HasProperty", prop_name |-> prop_name]

\* basic/core.py HasPropertyThat(has_prop_assertion, val_assertion)
HasPropertyThat(has_prop, val_assertion) ==
    [kind |-> "HasPropertyThat", has_prop |-> has_prop,
     val_assertion |-> val_assertion]

IsCombinator(obj) == obj.kind \in {"AllOfAssertion", "AnyOfAssertion"}

\* A new object is allocated; the call returns its reference.
New(h, obj) == [heap |-> Append(h, obj), ret |-> Len(h) + 1]

\* Assertion.__and__
Assertion_and(h, self, other) == New(h, AllOfAssertion(<<self, other>>))

\* Assertion.__or__
Assertion_or(h, self, other) == New(h, AnyOfAssertion(<<self, other>>))

\* Assertion.__invert__
Assertion_invert(h, self) == New(h, SimpleNegatedAssertion(self))

\* AllOfAssertion.__and__ building a new combinator as Assertion.__and__ does.
AllOfAndNests(h, self, other) == New(h, AllOfAssertion(<<self, other>>))

\* AllOfAssertion.__and__: extend or append in place, return self.
AllOfAssertion_and(h, self, other) ==
    IF h[other].kind = "AllOfAssertion"
    THEN [heap |-> [h EXCEPT ![self].assertions = @ \o h[other].assertions],
          ret |-> self]
    ELSE [heap |-> [h EXCEPT ![self].assertions = Append(@, other)],
          ret |-> self]

\* AllOfAssertion.__or__ putting the receiver's children, not the receiver, into
\* the new any-of assertion.
AllOfOrFlattens(h, self, other) ==
    New(h, AnyOfAssertion(h[self].assertions \o <<other>>))

\* AllOfAssertion.__or__
AllOfAssertion_or(h, self, other) == New(h, AnyOfAssertion(<<self, other>>))

\* AnyOfAssertion.__and__
AnyOfAssertion_and(h, self, other) == New(h, AllOfAssertion(<<self, other>>))

\* AnyOfAssertion.__or__: extend or append in place, return self.
AnyOfAssertion_or(h, self, other) ==
    IF h[other].kind = "AnyOfAssertion"
    THEN [heap |-> [h EXCEPT ![self].assertions = @ \o h[other].assertions],
          ret |-> self]
    ELSE [heap |-> [h EXCEPT ![self].assertions = Append(@, other)],
          ret |-> self]

\* SimpleNegatedAssertion.__invert__ wrapping again as Assertion.__invert__ does.
NegatedInvertWraps(h, self) == New(h, SimpleNegatedAssertion(self))

\* SimpleNegatedAssertion.__invert__
SimpleNegatedAssertion_invert(h, self) == [heap |-> h, ret |-> h[self].assertion]

\* The value NotImplemented; it refers to no assertion.
NotImplemented == 0

\* HasPropertyThat.__invert__: return NotImplemented
HasPropertyThat_invert(h, self) == [heap |-> h, ret |-> NotImplemented]

\* Assertion.and_: self.__and__(other)
and_(h, self, other) ==
    CASE h[self].kind = "AllOfAssertion" -> AllOfAssertion_and(h, self, other)
      [] h[self].kind = "AnyOfAssertion" -> AnyOfAssertion_and(h, self, other)
      [] OTHER -> Assertion_and(h, self, other)

\* Assertion.or_: self.__or__(other)
or_(h, self, other) ==
    CASE h[self].kind = "AllOfAssertion" -> AllOfAssertion_or(h, self, other)
      [] h[self].kind = "AnyOfAssertion" -> AnyOfAssertion_or(h, self, other)
      [] OTHER -> Assertion_or(h, self, other)

\* not_(assertion): ~assertion
not_(h, assertion) ==
    CASE h[assertion].kind = "SimpleNegatedAssertion" ->
            SimpleNegatedAssertion_invert(h, assertion)
      [] h[assertion].kind = "HasPropertyThat" ->
            HasPropertyThat_invert(h, assertion)
      [] OTHER -> Assertion_invert(h, assertion)

\* SimpleNegatedAssertion.test handing on the inner result as it is.
NegatedTestKeeps(inner) == inner

\* SimpleNegatedAssertion.test: negate(self.assertion.test(actual)), given the
\* inner result.
SimpleNegatedAssertion_test(inner) == negate(inner)

\* hasattr(actual, prop_name) for an int: "real" is an attribute of every int.
hasattr(act, prop_name) == prop_name = "real"

\* getattr(actual, "real") for an int is the int itself.
getattr(act, prop_name) == act

\* HasProperty(prop_name).test(actual); _to_str leaves the str prop_name as
\* it is.
HasProperty_test(prop_name, act) ==
    BasicResult(hasattr(act, prop_name),
        format(<<"{}", " does not have property \"", "{}", "\"">>,
               <<_to_str(act), prop_name>>),
        format(<<"{}", " has property \"", "{}", "\"">>,
               <<_to_str(act), prop_name>>))

\* HasPropertyThat._test_value, given the result of val_assertion.
HasPropertyThat_test_value(val_result, prop_name) ==
    PrefacedResult(val_result, <<"for property \"", "{prop}", "\":", NL>>, prop_name)

\* What a test() call gives when the recursion through the children does not end.
RecursionError == [kind |-> "RecursionError"]

\* assertion.test(actual) for the object a of heap h; depth is the number of
\* nested test() calls still allowed.
RECURSIVE testAt(_, _, _, _)

\* [assertion.test(actual) for assertion in self.assertions]: the children are
\* tested in order, and the first one to raise ends the comprehension.
RECURSIVE TestEach(_, _, _, _)

\* The comprehension leaving out the children after the first failed one.
RECURSIVE TestEachUntilFailed(_, _, _, _)
TestEachUntilFailed(h, assertions, act, depth) ==
    IF assertions = <<>>
    THEN [raised |-> FALSE, results |-> <<>>, evaluated |-> <<>>]
    ELSE LET result == testAt(h, Head(assertions), act, depth)
         IN  IF result = RecursionError
             THEN [raised |-> TRUE, results |-> <<>>,
                   evaluated |-> <<Head(assertions)>>]
             ELSE IF ~passed(result)
             THEN [raised |-> FALSE, results |-> <<result>>,
                   evaluated |-> <<Head(assertions)>>]
             ELSE LET rest == TestEachUntilFailed(h, Tail(assertions), act, depth)
                  IN  [raised |-> rest.raised,
                       results |-> <<result>> \o rest.results,
                       evaluated |-> <<Head(assertions)>> \o rest.evaluated]

\* The comprehension raising when a child's result has failed.
RECURSIVE TestEachRaisesOnFailed(_, _, _, _)
TestEachRaisesOnFailed(h, assertions, act, depth) ==
    IF assertions = <<>>
    THEN [raised |-> FALSE, results |-> <<>>, evaluated |-> <<>>]
    ELSE LET result == testAt(h, Head(assertions), act, depth)
         IN  IF result = RecursionError \/ ~passed(result)
             THEN [raised |-> TRUE, results |-> <<>>,
                   evaluated |-> <<Head(assertions)>>]
             ELSE LET rest == TestEachRaisesOnFailed(h, Tail(assertions), act, depth)
                  IN  [raised |-> rest.raised,
                       results |-> <<result>> \o rest.results,
                       evaluated |-> <<Head(assertions)>> \o rest.evaluated]

\* results holds the children's results, evaluated the children test() was
\* called on, in the order of the calls.
TestEach(h, assertions, act, depth) ==
    IF assertions = <<>>
    THEN [raised |-> FALSE, results |-> <<>>, evaluated |-> <<>>]
    ELSE LET result == testAt(h, Head(assertions), act, depth)
         IN  IF result = RecursionError
             THEN [raised |-> TRUE, results |-> <<>>,
                   evaluated |-> <<Head(assertions)>>]
             ELSE LET rest == TestEach(h, Tail(assertions), act, depth)
                  IN  [raised |-> rest.raised,
                       results |-> <<result>> \o rest.results,
                       evaluated |-> <<Head(assertions)>> \o rest.evaluated]

testAt(h, a, act, depth) ==
    IF depth = 0 THEN RecursionError
    ELSE CASE h[a].kind = "IsEqualTo" -> IsEqualTo_test(h[a].other, act)
           [] h[a].kind = "AllOfAssertion" ->
                 LET each == TestEach(h, h[a].assertions, act, depth - 1)
                 IN  IF each.raised THEN RecursionError
                     ELSE AllOfTestResult(each.results)
           [] h[a].kind = "AnyOfAssertion" ->
                 LET each == TestEach(h, h[a].assertions, act, depth - 1)
                 IN  IF each.raised THEN RecursionError
                     ELSE AnyOfTestResult(each.results)
           [] h[a].kind = "SimpleNegatedAssertion" ->
                 LET inner == testAt(h, h[a].assertion, act, depth - 1)
                 IN  IF inner = RecursionError THEN RecursionError
                     ELSE SimpleNegatedAssertion_test(inner)
           [] h[a].kind = "HasProperty" -> HasProperty_test(h[a].prop_name, act)
           [] h[a].kind = "HasPropertyThat" ->
                 LET prop_name == h[h[a].has_prop].prop_name
                     has_prop_result == HasProperty_test(prop_name, act)
                     val_result == testAt(h, h[a].val_assertion,
                                          getattr(act, prop_name), depth - 1)
                 IN  IF ~passed(has_prop_result) THEN has_prop_result
                     ELSE IF val_result = RecursionError THEN RecursionError
                     ELSE HasPropertyThat_test_value(val_result, prop_name)

\* A chain of nested test() calls over distinct objects is no longer than the
\* heap; a longer one runs through a cycle and never ends.
test(h, a, act) == testAt(h, a, act, Len(h))

\* The children a.test(act) calls test() on itself, in the order of the calls.
Evaluated(h, a, act) ==
    CASE IsCombinator(h[a]) ->
            TestEach(h, h[a].assertions, act, Len(h) - 1).evaluated
      [] h[a].kind = "SimpleNegatedAssertion" -> <<h[a].assertion>>
      [] OTHER -> <<>>

(***************************************************************************)
(* Building and testing assertions                                         *)
(***************************************************************************)

\* Most assertion objects a script holds.
MaxObjects == 4
\* Most child entries held by all the combinators together.
MaxRefs == 2

\* The subjects handed to test().
Subjects == 1..3

RECURSIVE SumLen(_, _)
SumLen(h, n) ==
    IF n = 0 THEN 0
    ELSE (IF IsCombinator(h[n]) THEN Len(h[n].assertions) ELSE 0) + SumLen(h, n - 1)

\* The number of child entries of all the combinators of h.
Refs(h) == SumLen(h, Len(h))

Fits(h) == Len(h) <= MaxObjects /\ Refs(h) <= MaxRefs

\* The script holds the leaf assertions IsEqualTo(1) and IsEqualTo(2).
InitAssertions ==
    /\ SearchIdle
    /\ heap = <<IsEqualTo(1), IsEqualTo(2)>>
    /\ cur = NoResult
    /\ last = NoOp
    /\ store = <<>>

\* test() changes no assertion, so what a script can build does not depend on
\* the tests it ran: the script builds first and tests afterwards.
Building == cur = NoResult

\* AllOfAssertion(*assertions)
ConstructAllOf ==
    /\ Building
    /\ Len(heap) < MaxObjects
    /\ \E assertions \in SeqsOf(1..Len(heap), 0, MaxRefs - Refs(heap)) :
          /\ heap' = New(heap, AllOfAssertion(assertions)).heap
          /\ last' = [op |-> "AllOfAssertion", ret |-> Len(heap) + 1]
    /\ UNCHANGED <<searchVars, cur, store>>

\* AnyOfAssertion(*assertions)
ConstructAnyOf ==
    /\ Building
    /\ Len(heap) < MaxObjects
    /\ \E assertions \in SeqsOf(1..Len(heap), 0, MaxRefs - Refs(heap)) :
          /\ heap' = New(heap, AnyOfAssertion(assertions)).heap
          /\ last' = [op |-> "AnyOfAssertion", ret |-> Len(heap) + 1]
    /\ UNCHANGED <<searchVars, cur, store>>

\* SimpleNegatedAssertion(assertion)
ConstructNegated ==
    /\ Building
    /\ Len(heap) < MaxObjects
    /\ \E assertion \in 1..Len(heap) :
          /\ heap' = New(heap, SimpleNegatedAssertion(assertion)).heap
          /\ last' = [op |-> "SimpleNegatedAssertion", self |-> assertion,
                      ret |-> Len(heap) + 1]
    /\ UNCHANGED <<searchVars, cur, store>>

\* self.and_(other)
And ==
    /\ Building
    /\ \E self \in 1..Len(heap), other \in 1..Len(heap) :
          /\ Fits(and_(heap, self, other).heap)
          /\ heap' = and_(heap, self, other).heap
          /\ last' = [op |-> "and_", self |-> self, other |-> other,
                      ret |-> and_(heap, self, other).ret]
    /\ UNCHANGED <<searchVars, cur, store>>

\* self.or_(other)
Or ==
    /\ Building
    /\ \E self \in 1..Len(heap), other \in 1..Len(heap) :
          /\ Fits(or_(heap, self, other).heap)
          /\ heap' = or_(heap, self, other).heap
          /\ last' = [op |-> "or_", self |-> self, other |-> other,
                      ret |-> or_(heap, self, other).ret]
    /\ UNCHANGED <<searchVars, cur, store>>

\* not_(assertion)
Not ==
    /\ Building
    /\ \E assertion \in 1..Len(heap) :
          /\ Fits(not_(heap, assertion).heap)
          /\ heap' = not_(heap, assertion).heap
          /\ last' = [op |-> "not_", self |-> assertion,
                      ret |-> not_(heap, assertion).ret]
    /\ UNCHANGED <<searchVars, cur, store>>

\* test() using up the child list it iterates over, as it would were the list
\* kept as the iterator it was built from.
TestConsumes ==
    /\ last # NoOp
    /\ \E act \in Subjects :
          /\ cur' = test(heap, last.ret, act)
          /\ last' = [op |-> "test", subject |-> act, ret |-> last.ret,
                      evaluated |-> Evaluated(heap, last.ret, act)]
    /\ heap' = IF IsCombinator(heap[last.ret])
               THEN [heap EXCEPT ![last.ret].assertions = <<>>]
               ELSE heap
    /\ UNCHANGED <<searchVars, store>>

\* assertion.test(actual), for the assertion the last call returned
Test ==
    /\ last # NoOp
    /\ \E act \in Subjects :
          /\ cur' = test(heap, last.ret, act)
          /\ last' = [op |-> "test", subject |-> act, ret |-> last.ret,
                      evaluated |-> Evaluated(heap, last.ret, act)]
    /\ UNCHANGED <<searchVars, heap, store>>

NextAssertions ==
    \/ ConstructAllOf
    \/ ConstructAnyOf
    \/ ConstructNegated
    \/ And
    \/ Or
    \/ Not
    \/ Test

SpecAssertions == InitAssertions /\ [][NextAssertions]_vars

(***************************************************************************)
(* test.py: the Tester facade                                              *)
(***************************************************************************)

\* What a call raised: nothing, or an exception with its message.
NoError == [type |-> "none", message |-> <<>>]
AssertionError(message) == [type |-> "AssertionError", message |-> message]
AttributeError(name) == [type |-> "AttributeError", message |-> <<name>>]
Propagated == [type |-> "RecursionError", message |-> <<>>]

\* The msg argument: None, or a template string.
None == [given |-> FALSE, template |-> <<>>]
Template(string) == [given |-> TRUE, template |-> string]

\* if msg: None and the empty string are false.
Truthy(msg) == msg.given /\ msg.template # <<>>

\* Tester._failure: the override template formatted with the subject first;
\* without one, result.expected() is looked up, which no TestResult has.
Tester_failure(var_to_test, result, msg) ==
    IF Truthy(msg)
    THEN AssertionError(format(msg.template, <<ToString(var_to_test)>>))
    ELSE AttributeError("expected")

\* if result.failed: self._failure(...)
FailureOf(var_to_test, result, msg) ==
    IF failed(result) THEN Tester_failure(var_to_test, result, msg) ELSE NoError

\* Tester.__call__
Tester_call(h, var_to_test, matcher, msg) ==
    LET result == test(h, matcher, var_to_test)
    IN  IF result = RecursionError
        THEN [result |-> NoResult, raised |-> Propagated]
        ELSE [result |-> result, raised |-> FailureOf(var_to_test, result, msg)]

\* The tail of Tester.all, Tester.any and Tester.none: the matchers are tested
\* in order, the composite is built and a failed one is reported.
Tester_composite(h, var_to_test, matchers, msg, kind) ==
    LET each == TestEach(h, matchers, var_to_test, Len(h))
        results == [kind |-> kind, results |-> each.results]
    IN  IF each.raised
        THEN [result |-> NoResult, raised |-> Propagated]
        ELSE [result |-> results, raised |-> FailureOf(var_to_test, results, msg)]

\* Tester.all without its check of len(matchers).
TesterAllUnchecked(h, var_to_test, matchers, msg) ==
    Tester_composite(h, var_to_test, matchers, msg, "AllOfTestResult")

\* Tester.all
Tester_all(h, var_to_test, matchers, msg) ==
    IF Len(matchers) = 0
    THEN [result |-> NoResult, raised |-> AssertionError(<<"Nothing is tested">>)]
    ELSE Tester_composite(h, var_to_test, matchers, msg, "AllOfTestResult")

\* Tester.any
Tester_any(h, var_to_test, matchers, msg) ==
    IF Len(matchers) = 0
    THEN [result |-> NoResult, raised |-> AssertionError(<<"Nothing is tested">>)]
    ELSE Tester_composite(h, var_to_test, matchers, msg, "AnyOfTestResult")

\* Tester.none
Tester_none(h, var_to_test, matchers, msg) ==
    IF Len(matchers) = 0
    THEN [result |-> NoResult, raised |-> AssertionError(<<"Nothing is tested">>)]
    ELSE Tester_composite(h, var_to_test, matchers, msg, "NoneOfTestResult")

\* Most matchers handed to Tester.all, Tester.any and Tester.none.
MaxMatchers == 2

\* The override messages tried: none, the empty string, a template.
Messages == {None, Template(<<>>), Template(<<"unexpected value ", "{}">>)}

\* The script holds IsEqualTo(1) and HasProperty("real").that(IsEqualTo(1)).
InitTester ==
    /\ SearchIdle
    /\ heap = <<IsEqualTo(1), HasProperty("real"), HasPropertyThat(2, 1)>>
    /\ cur = NoResult
    /\ last = NoOp
    /\ store = <<>>

\* A script makes one Tester call, as its last step.
Called == last.op \in {"Tester.__call__", "Tester.all", "Tester.any", "Tester.none"}

\* test_that(var_to_test, matcher, msg)
TesterCall ==
    /\ ~Called
    /\ \E var_to_test \in Subjects, matcher \in 1..Len(heap), msg \in Messages :
          LET out == Tester_call(heap, var_to_test, matcher, msg)
          IN  /\ cur' = out.result
              /\ last' = [op |-> "Tester.__call__", subject |-> var_to_test,
                          matchers |-> <<matcher>>, msg |-> msg,
                          raised |-> out.raised]
    /\ UNCHANGED <<searchVars, heap, store>>

\* test_that.all(var_to_test, matchers, msg)
TesterAll ==
    /\ ~Called
    /\ \E var_to_test \in Subjects, msg \in Messages,
          matchers \in SeqsOf(1..Len(heap), 0, MaxMatchers) :
          LET out == Tester_all(heap, var_to_test, matchers, msg)
          IN  /\ cur' = out.result
              /\ last' = [op |-> "Tester.all", subject |-> var_to_test,
                          matchers |-> matchers, msg |-> msg,
                          raised |-> out.raised]
    /\ UNCHANGED <<searchVars, heap, store>>

\* test_that.any(var_to_test, matchers, msg)
TesterAny ==
    /\ ~Called
    /\ \E var_to_test \in Subjects, msg \in Messages,
          matchers \in SeqsOf(1..Len(heap), 0, MaxMatchers) :
          LET out == Tester_any(heap, var_to_test, matchers, msg)
          IN  /\ cur' = out.result
              /\ last' = [op |-> "Tester.any", subject |-> var_to_test,
                          matchers |-> matchers, msg |-> msg,
                          raised |-> out.raised]
    /\ UNCHANGED <<searchVars, heap, store>>

\* test_that.none(var_to_test, matchers, msg)
TesterNone ==
    /\ ~Called
    /\ \E var_to_test \in Subjects, msg \in Messages,
          matchers \in SeqsOf(1..Len(heap), 0, MaxMatchers) :
          LET out == Tester_none(heap, var_to_test, matchers, msg)
          IN  /\ cur' = out.result
              /\ last' = [op |-> "Tester.none", subject |-> var_to_test,
                          matchers |-> matchers, msg |-> msg,
                          raised |-> out.raised]
    /\ UNCHANGED <<searchVars, heap, store>>

\* not_(assertion), before the Tester call
NotBeforeCall == ~Called /\ Not

NextTester ==
    \/ NotBeforeCall
    \/ TesterCall
    \/ TesterAll
    \/ TesterAny
    \/ TesterNone

SpecTester == InitTester /\ [][NextTester]_vars

(***************************************************************************)
(* Results as objects                                                      *)
(*                                                                         *)
(* test() returns objects: store[r] is the result object, or the list      *)
(* object, with reference r. A composite result holds a reference to its   *)
(* list, a negated result a reference to the result it wraps, and a basic  *)
(* result its two message callables. The subject is a list, which the      *)
(* script that holds it can change after the test.                         *)
(***************************************************************************)

\* Most objects in the store, the longest subject, and the longest child list
\* of a combinator extended in place.
MaxStore == 5
MaxSubject == 2
MaxChildren == 2

\* basic/collections.py Contains(inner)
Contains(inner) == [kind |-> "Contains", inner |-> inner]

\* An argument of make_message: its value now, and whether it is an object
\* that can change later (the subject list) or not (an int).
Argument(value, mutable) == [value |-> value, mutable |-> mutable]

\* What a message callable holds of an argument: a str, or the object itself.
Str(text) == [kind |-> "str", text |-> text]
TheObject == [kind |-> "object"]

\* _make_message(string, *args): the callable, with the arguments it closes over.
_make_message(string, args) == [string |-> string, args |-> args]

\* message(): string.format(*args); format takes a str as it is and converts
\* an object as it is when message() is called.
message(m, act) ==
    format(m.string,
           [i \in 1..Len(m.args) |->
               IF m.args[i].kind = "str" THEN m.args[i].text ELSE _to_str(act)])

\* make_message handing the arguments on as they are, without _to_str.
MessageOverObjects(string, args) ==
    _make_message(string,
        [i \in 1..Len(args) |->
            IF args[i].mutable THEN TheObject ELSE Str(_to_str(args[i].value))])

\* make_message with arguments: each is converted by _to_str, and the
\* callable closes over the strings.
MessageOf(string, args) ==
    _make_message(string, [i \in 1..Len(args) |-> Str(_to_str(args[i].value))])

\* The strings make_message builds: _to_str builds one for each argument that
\* is no str.
Conversions(args) == Len(args)

\* Contains(inner).test(actual): the BasicResult object
Contains_test(inner, act) ==
    [kind |-> "BasicResult",
     passed |-> \E i \in 1..Len(act) : act[i] = inner,
     failure_message |->
         MessageOf(<<"{}", " does not contain ", "{}">>,
                   <<Argument(act, TRUE), Argument(inner, FALSE)>>),
     negated_message |->
         MessageOf(<<"{}", " contains ", "{}">>,
                   <<Argument(act, TRUE), Argument(inner, FALSE)>>)]

\* The list of one test() is the list object of an earlier test(), filled again.
ListKeptAndRefilled(st, refs) ==
    IF \E l \in 1..Len(st) : st[l].kind = "list"
    THEN LET l == CHOOSE l \in 1..Len(st) : st[l].kind = "list"
         IN  [store |-> [st EXCEPT ![l].items = refs], ret |-> l]
    ELSE [store |-> Append(st, [kind |-> "list", items |-> refs]), ret |-> Len(st) + 1]

\* [... for assertion in self.assertions]: a new list object
NewList(st, refs) ==
    [store |-> Append(st, [kind |-> "list", items |-> refs]), ret |-> Len(st) + 1]

\* assertion.test(actual) for the object a of heap h, allocating into the
\* store st: the store afterwards, the reference returned, and the number of
\* strings built on the way.
RECURSIVE TestInto(_, _, _, _, _)
RECURSIVE TestEachInto(_, _, _, _, _)
TestEachInto(h, st, assertions, act, depth) ==
    IF assertions = <<>>
    THEN [raised |-> FALSE, store |-> st, refs |-> <<>>, built |-> 0]
    ELSE LET one == TestInto(h, st, Head(assertions), act, depth)
         IN  IF one.raised
             THEN [raised |-> TRUE, store |-> st, refs |-> <<>>, built |-> 0]
             ELSE LET rest == TestEachInto(h, one.store, Tail(assertions), act, depth)
                  IN  [raised |-> rest.raised, store |-> rest.store,
                       refs |-> <<one.ret>> \o rest.refs,
                       built |-> one.built + rest.built]

TestInto(h, st, a, act, depth) ==
    IF depth = 0 THEN [raised |-> TRUE, store |-> st, ret |-> 0, built |-> 0]
    ELSE CASE h[a].kind = "Contains" ->
                 [raised |-> FALSE,
                  store |-> Append(st, Contains_test(h[a].inner, act)),
                  ret |-> Len(st) + 1,
                  built |-> 2 * Conversions(<<act, h[a].inner>>)]
           [] IsCombinator(h[a]) ->
                 LET each == TestEachInto(h, st, h[a].assertions, act, depth - 1)
                     list == NewList(each.store, each.refs)
                     kind == IF h[a].kind = "AllOfAssertion"
                             THEN "AllOfTestResult" ELSE "AnyOfTestResult"
                 IN  IF each.raised
                     THEN [raised |-> TRUE, store |-> st, ret |-> 0, built |-> 0]
                     ELSE [raised |-> FALSE,
                           store |-> Append(list.store,
                                            [kind |-> kind, results |-> list.ret]),
                           ret |-> Len(list.store) + 1,
                           built |-> each.built]
           [] h[a].kind = "SimpleNegatedAssertion" ->
                 LET inner == TestInto(h, st, h[a].assertion, act, depth - 1)
                 IN  IF inner.raised
                     THEN [raised |-> TRUE, store |-> st, ret |-> 0, built |-> 0]
                     ELSE [raised |-> FALSE,
                           store |-> Append(inner.store,
                                            [kind |-> "NegatedResult",
                                             original |-> inner.ret]),
                           ret |-> Len(inner.store) + 1,
                           built |-> inner.built]

\* The result object r of the store st as it is read now: its passed, its
\* children and the texts its messages render.
RECURSIVE ResultAt(_, _, _)
ResultAt(st, r, act) ==
    CASE st[r].kind = "BasicResult" ->
            BasicResult(st[r].passed,
                        message(st[r].failure_message, act),
                        message(st[r].negated_message, act))
      [] st[r].kind = "NegatedResult" ->
            NegatedResult(ResultAt(st, st[r].original, act))
      [] OTHER ->
            [kind |-> st[r].kind,
             results |-> [i \in 1..Len(st[st[r].results].items) |->
                             ResultAt(st, st[st[r].results].items[i], act)]]

\* The references of the result objects of a store.
ResultsIn(st) == {r \in 1..Len(st) : st[r].kind # "list"}

\* ~result for the result object r: the any-of and none-of results hand their
\* own list to the new result.
invert_object(st, r) ==
    CASE st[r].kind = "NegatedResult" -> [store |-> st, ret |-> st[r].original]
      [] st[r].kind = "AnyOfTestResult" ->
            [store |-> Append(st, [kind |-> "NoneOfTestResult",
                                   results |-> st[r].results]),
             ret |-> Len(st) + 1]
      [] st[r].kind = "NoneOfTestResult" ->
            [store |-> Append(st, [kind |-> "AnyOfTestResult",
                                   results |-> st[r].results]),
             ret |-> Len(st) + 1]
      [] OTHER ->
            [store |-> Append(st, [kind |-> "NegatedResult", original |-> r]),
             ret |-> Len(st) + 1]

\* negate(result) for the result object r
negate_object(st, r) ==
    [store |-> Append(st, [kind |-> "NegatedResult", original |-> r]),
     ret |-> Len(st) + 1]

\* The script holds Contains(2), an all-of and an any-of assertion over it
\* and the negation of the any-of assertion; the subject is the list [1].
InitObjects ==
    /\ actual = <<1>>
    /\ first = 0 /\ inner_seq = <<>>
    /\ iterator = <<>> /\ pc = "idle" /\ returned = "none"
    /\ heap = <<Contains(2), AllOfAssertion(<<1>>), AnyOfAssertion(<<1>>),
                SimpleNegatedAssertion(3)>>
    /\ cur = NoResult
    /\ last = NoOp
    /\ store = <<>>

\* self.and_(other) for an all-of assertion self and a leaf other: in place
AndOnAllOf ==
    /\ \E self \in 1..Len(heap), other \in 1..Len(heap) :
          /\ heap[self].kind = "AllOfAssertion"
          /\ heap[other].kind = "Contains"
          /\ Len(heap[self].assertions) < MaxChildren
          /\ heap' = and_(heap, self, other).heap
          /\ last' = [op |-> "and_", self |-> self, other |-> other,
                      ret |-> and_(heap, self, other).ret]
    /\ UNCHANGED <<searchVars, cur, store>>

\* self.or_(other) for an any-of assertion self and a leaf other: in place
OrOnAnyOf ==
    /\ \E self \in 1..Len(heap), other \in 1..Len(heap) :
          /\ heap[self].kind = "AnyOfAssertion"
          /\ heap[other].kind = "Contains"
          /\ Len(heap[self].assertions) < MaxChildren
          /\ heap' = or_(heap, self, other).heap
          /\ last' = [op |-> "or_", self |-> self, other |-> other,
                      ret |-> or_(heap, self, other).ret]
    /\ UNCHANGED <<searchVars, cur, store>>

\* assertion.test(actual)
TestObject ==
    /\ \E a \in 1..Len(heap) :
          LET out == TestInto(heap, store, a, actual, Len(heap))
          IN  /\ Len(out.store) <= MaxStore
              /\ store' = out.store
              /\ last' = [op |-> "test", self |-> a, ret |-> out.ret,
                          raised |-> out.raised, built |-> out.built]
    /\ UNCHANGED <<searchVars, heap, cur>>

\* The script holds the result object that the last call returned.
Returned ==
    /\ last.op \in {"test", "invert", "negate", "passed",
                    "failure_message", "negated_message", "append"}
    /\ last.ret # 0

\* result.passed and result.failed, for the result returned last: no message
\* is called
ReadPassed ==
    /\ Returned
    /\ last' = [op |-> "passed", ret |-> last.ret, built |-> 0]
    /\ UNCHANGED <<searchVars, heap, cur, store>>

\* result.failure_message(), for the result returned last
CallFailureMessage ==
    /\ Returned
    /\ last' = [op |-> "failure_message", ret |-> last.ret]
    /\ UNCHANGED <<searchVars, heap, cur, store>>

\* result.negated_message(), for the result returned last
CallNegatedMessage ==
    /\ Returned
    /\ last' = [op |-> "negated_message", ret |-> last.ret]
    /\ UNCHANGED <<searchVars, heap, cur, store>>

\* ~result, for the result returned last
InvertObject ==
    /\ Returned
    /\ LET r == last.ret IN
          /\ Len(invert_object(store, r).store) <= MaxStore
          /\ store' = invert_object(store, r).store
          /\ last' = [op |-> "invert", arg |-> r, ret |-> invert_object(store, r).ret]
    /\ UNCHANGED <<searchVars, heap, cur>>

\* negate(result), for the result returned last
NegateObject ==
    /\ Returned
    /\ LET r == last.ret IN
          /\ Len(negate_object(store, r).store) <= MaxStore
          /\ store' = negate_object(store, r).store
          /\ last' = [op |-> "negate", arg |-> r, ret |-> negate_object(store, r).ret]
    /\ UNCHANGED <<searchVars, heap, cur>>

\* actual.append(2), by the script that holds the subject, after a test of it
AppendToSubject ==
    /\ Len(actual) < MaxSubject
    /\ store # <<>>
    /\ actual' = Append(actual, 2)
    /\ last' = [op |-> "append", element |-> 2,
                ret |-> IF Returned THEN last.ret ELSE 0]
    /\ UNCHANGED <<first, inner_seq, iterator, pc, returned, heap, cur, store>>

NextObjects ==
    \/ AndOnAllOf
    \/ OrOnAnyOf
    \/ TestObject
    \/ ReadPassed
    \/ CallFailureMessage
    \/ CallNegatedMessage
    \/ InvertObject
    \/ NegateObject
    \/ AppendToSubject

SpecObjects == InitObjects /\ [][NextObjects]_vars

(***************************************************************************)
(* Ordered containment: what the search is required to decide              *)
(***************************************************************************)

\* needle is an order-preserving, not necessarily contiguous, subsequence of
\* haystack: indices i_1 < ... < i_k exist with haystack[i_j] = needle[j].
IsSubsequence(needle, haystack) ==
    \E idx \in [1..Len(needle) -> 1..Len(haystack)] :
        /\ \A j \in 1..Len(needle) : haystack[idx[j]] = needle[j]
        /\ \A j \in 1..(Len(needle) - 1) : idx[j] < idx[j + 1]

\* The match attempt anchored at haystack position p succeeds: the haystack
\* holds the whole needle from p on.
FullMatchAt(p) ==
    /\ p + Len(inner_seq) - 1 <= Len(actual)
    /\ \A j \in 1..Len(inner_seq) : actual[p + j - 1] = inner_seq[j]

\* C1: whenever the needle is an order-preserving subsequence of the haystack,
\* the finished search has returned True.
C1_Completeness ==
    (pc = "done" /\ IsSubsequence(inner_seq, actual)) => returned = "True"

\* C2: whenever the finished search has returned True, the needle is an
\* order-preserving subsequence of the haystack; haystack [1,2,3] with needle
\* [3,1] returns False.
C2_Soundness ==
    /\ returned = "True" => IsSubsequence(inner_seq, actual)
    /\ (pc = "done" /\ actual = <<1, 2, 3>> /\ inner_seq = <<3, 1>>)
           => returned = "False"

\* C2 witness: the search returned True for a three-element needle that does
\* not begin at the first haystack element.
C2_Witness ==
    /\ pc = "done" /\ returned = "True"
    /\ Len(inner_seq) = 3 /\ Len(actual) = 5
    /\ actual[1] # first

\* C3: when the match attempt succeeds at some occurrence of needle[0], the
\* finished search has returned True, whatever happened at earlier occurrences;
\* [1,2,3,2,4] with [2,4] and [1,1,1,2] with [1,1,2] both return True.
C3_Backtracking ==
    pc = "done" =>
        /\ (\E p \in 1..Len(actual) : FullMatchAt(p)) => returned = "True"
        /\ (actual = <<1, 2, 3, 2, 4>> /\ inner_seq = <<2, 4>>) => returned = "True"
        /\ (actual = <<1, 1, 1, 2>> /\ inner_seq = <<1, 1, 2>>) => returned = "True"

\* C3 witness: the search returned True for [1,2,3,2,4] and [2,4], where the
\* attempt at the first 2 fails and the attempt at the second 2 succeeds.
C3_Witness ==
    /\ pc = "done" /\ returned = "True"
    /\ actual = <<1, 2, 3, 2, 4>> /\ inner_seq = <<2, 4>>
    /\ ~FullMatchAt(2) /\ FullMatchAt(4)

\* C19: a test of the assertion contains_all_in_order([]) built never ends
\* with a pass or fail answer.
C19_EmptyNeedleRaises ==
    (last.op = "contains_all_in_order" /\ last.items = <<>>) =>
        returned \notin {"True", "False"}

\* The haystack position the iterator is at: the position of the element it
\* yields next.
Cursor == Len(actual) - Len(iterator) + 1

\* C25: every search returns; the iterator never goes back, and stepping over
\* a failed anchor moves it exactly one position on, so the next attempt is
\* anchored at a later position; a search that ends with no position at
\* which the whole needle matches has returned False, the empty haystack and a
\* needle longer than the rest of the haystack included.
C25_SearchTerminates ==
    /\ <>(pc = "done")
    /\ [][/\ Len(iterator') <= Len(iterator)
          /\ (pc = "next" /\ pc' = "skip") => Cursor' = Cursor + 1
          /\ pc = "next" => (pc' = "done" <=> iterator = <<>>)]_vars
    /\ [](pc = "done" =>
            /\ returned \in {"True", "False"}
            /\ (~\E p \in 1..Len(actual) : FullMatchAt(p)) => returned = "False"
            /\ actual = <<>> => returned = "False")

\* C25 witness: the search of [1,2,1] for [1,1] has returned False after two
\* failed anchors, the second with a needle longer than the rest.
C25_Witness ==
    /\ pc = "done" /\ returned = "False"
    /\ actual = <<1, 2, 1>> /\ inner_seq = <<1, 1>>
    /\ iterator = <<>>

\* The search over a list that can be read again at any index: the first
\* position from `from` on that holds needle[0] is the anchor; the search
\* succeeds when the list holds the whole needle from the anchor on, and goes
\* on behind the anchor otherwise.
RECURSIVE ListSearch(_, _, _)
ListSearch(haystack, needle, from) ==
    IF from > Len(haystack) THEN "False"
    ELSE IF haystack[from] # needle[1] THEN ListSearch(haystack, needle, from + 1)
    ELSE IF /\ from + Len(needle) - 1 <= Len(haystack)
            /\ SubSeq(haystack, from, from + Len(needle) - 1) = needle
         THEN "True"
         ELSE ListSearch(haystack, needle, from + 1)

\* C26: the match attempt at an anchor takes no element from the iterator the
\* search goes on with, whether or not the attempt succeeds, so the search
\* over the one-shot iterator returns what the search over a list of the same
\* elements, read by index, returns.
C26_SinglePassBuffered ==
    /\ [][pc = "tee" => iterator' = iterator]_vars
    /\ [](pc = "done" => returned = ListSearch(actual, inner_seq, 1))

\* C26 witness: the search of [1,1,2] for [1,2] has returned True: the attempt
\* at the first 1 failed, and the second 1 was still there to anchor on.
C26_Witness ==
    /\ pc = "done" /\ returned = "True"
    /\ actual = <<1, 1, 2>> /\ inner_seq = <<1, 2>>
    /\ ~FullMatchAt(1) /\ FullMatchAt(2)

\* C30: the finished search of a haystack by the assertion
\* contains_all_in_order(items), built for a non-empty list, has returned what
\* the search of that haystack for the elements of items returns.
C30_FactoryNeedleIsItems ==
    (last.op = "contains_all_in_order" /\ last.items # <<>> /\ pc = "done") =>
        returned = ListSearch(actual, last.items, 1)

(***************************************************************************)
(* The result algebra: what the composites and negation are required to do *)
(***************************************************************************)

IsComposite(r) == r.kind \in {"AllOfTestResult", "AnyOfTestResult", "NoneOfTestResult"}

\* Two results with the same passed, failure text and negated text.
SameContent(r1, r2) ==
    /\ passed(r1) = passed(r2)
    /\ failure_message(r1) = failure_message(r2)
    /\ negated_message(r1) = negated_message(r2)

\* C4: an all-of result passed iff every child passed, an any-of result iff at
\* least one child passed, a none-of result iff no child passed, for every
\* child list.
C4_CompositePassed ==
    /\ cur.kind = "AllOfTestResult" =>
          (passed(cur) <=> \A i \in 1..Len(cur.results) : passed(cur.results[i]))
    /\ cur.kind = "AnyOfTestResult" =>
          (passed(cur) <=> \E i \in 1..Len(cur.results) : passed(cur.results[i]))
    /\ cur.kind = "NoneOfTestResult" =>
          (passed(cur) <=> ~\E i \in 1..Len(cur.results) : passed(cur.results[i]))

\* C4 witness: a none-of result has just been built over a failed child
\* followed by a passed child, and has not passed.
C4_Witness ==
    /\ last.op = "NoneOfTestResult" /\ cur.kind = "NoneOfTestResult"
    /\ Len(cur.results) = 2
    /\ ~passed(cur.results[1]) /\ passed(cur.results[2])
    /\ ~passed(cur)

\* C5: ~ of an any-of result is the none-of result over the same children in
\* the same order, ~ of a none-of result is the any-of result over the same
\* children, and inverting twice gives a result with the passed, failure text
\* and negated text of the original composite.
C5_DeMorganResults ==
    last.op = "invert" =>
        /\ last.arg.kind = "AnyOfTestResult" =>
              /\ cur.kind = "NoneOfTestResult"
              /\ cur.results = last.arg.results
        /\ last.arg.kind = "NoneOfTestResult" =>
              /\ cur.kind = "AnyOfTestResult"
              /\ cur.results = last.arg.results
        /\ IsComposite(last.arg) => SameContent(invert(cur), last.arg)

\* C5 witness: an any-of result with a failed and a passed child has just been
\* inverted.
C5_Witness ==
    /\ last.op = "invert" /\ last.arg.kind = "AnyOfTestResult"
    /\ Len(last.arg.results) = 2
    /\ ~passed(last.arg.results[1]) /\ passed(last.arg.results[2])
    /\ cur.kind = "NoneOfTestResult"

\* C6: negate(r) has the opposite passed of r, r's negated text as its failure
\* text and r's failure text as its negated text; ~ of the negation is r
\* itself, and for every result r negating twice (by negate or by ~) gives a
\* result with the passed, failure text and negated text of r.
C6_NegationInvolution ==
    /\ last.op = "negate" =>
          /\ passed(cur) = ~passed(last.arg)
          /\ failure_message(cur) = negated_message(last.arg)
          /\ negated_message(cur) = failure_message(last.arg)
          /\ invert(cur) = last.arg
    /\ SameContent(negate(negate(cur)), cur)
    /\ SameContent(invert(invert(cur)), cur)

\* A text with the first tab of every line taken off.
Untab(text) ==
    Concat([i \in 1..Len(text) |->
               IF text[i] = tab /\ (i = 1 \/ text[i - 1] = NL) THEN <<>> ELSE <<text[i]>>])

\* The places of a text where a line begins with "AND ": the line ends before.
Breaks(text) == {i \in 1..Len(text) - 1 : text[i] = NL /\ text[i + 1] = "AND "}

\* The blocks of a text: the pieces between the lines that begin with "AND ".
\* The empty text has no block.
Blocks(text) ==
    IF text = <<>> THEN <<>>
    ELSE LET breaks == Breaks(text)
             Break(k) == CHOOSE i \in breaks : Cardinality({j \in breaks : j <= i}) = k
             n == Cardinality(breaks)
         IN  [k \in 1..n + 1 |->
                 SubSeq(text,
                        IF k = 1 THEN 1 ELSE Break(k - 1) + 2,
                        IF k = n + 1 THEN Len(text) ELSE Break(k) - 1)]

\* The children of a composite that failed, in child order.
FailedChildren(r) == SelectSeq(r.results, LAMBDA c : ~passed(c))

\* C22: the failure text of an all-of result is its heading followed by one
\* indented block per failed child, in child order, each block being that
\* child's failure text; no block is the failure text of a passed child
\* (unless a failed child has the very same text).
C22_AllOfFailureText ==
    cur.kind = "AllOfTestResult" =>
        LET text == failure_message(cur)
            blocks == Blocks(Untab(SubSeq(text, 3, Len(text))))
            failedOnes == FailedChildren(cur)
        IN  /\ Len(text) >= 2
            /\ SubSeq(text, 1, 2) = <<"Some assertions failed:", NL>>
            /\ blocks = [i \in 1..Len(failedOnes) |-> failure_message(failedOnes[i])]
            /\ \A i \in 1..Len(cur.results) :
                  (/\ passed(cur.results[i])
                   /\ \A j \in 1..Len(failedOnes) :
                         failure_message(failedOnes[j]) # failure_message(cur.results[i]))
                  => \A b \in 1..Len(blocks) :
                         blocks[b] # failure_message(cur.results[i])

\* C22 witness: an all-of result over a passed child followed by a failed
\* child has been built; its failure text has one block, the failed child's.
C22_Witness ==
    /\ cur.kind = "AllOfTestResult"
    /\ Len(cur.results) = 2
    /\ passed(cur.results[1]) /\ ~passed(cur.results[2])
    /\ Blocks(Untab(SubSeq(failure_message(cur), 3, Len(failure_message(cur)))))
           = <<failure_message(cur.results[2])>>

(***************************************************************************)
(* The assertion combinators: what building and negating are required to do *)
(***************************************************************************)

\* The results of the children of the combinator a for the subject act.
ChildResults(h, a, act) ==
    [i \in 1..Len(h[a].assertions) |-> test(h, h[a].assertions[i], act)]

\* The negation wrapper built for the object a, tested with act.
TestOfNegation(h, a, act) == test(not_(h, a).heap, not_(h, a).ret, act)

\* C7: when an any-of assertion has just been tested and the test ended, its
\* result holds the children's results, the negation of the assertion tests
\* for the same subject to a result that passed exactly when the none-of
\* result over those children's results passed, and the negation of that
\* none-of result (by negate or by ~) passed exactly when the any-of
\* assertion's result passed; when the negation of an any-of assertion has
\* just been tested, its result passed exactly when the none-of result over
\* the children's results passed.
C7_DeMorganAssertions ==
    /\ (/\ last.op = "test"
        /\ heap[last.ret].kind = "AnyOfAssertion"
        /\ cur # RecursionError) =>
           LET negated == TestOfNegation(heap, last.ret, last.subject)
               noneOf == NoneOfTestResult(cur.results)
           IN  /\ cur.results = ChildResults(heap, last.ret, last.subject)
               /\ negated # RecursionError
               /\ passed(negated) = passed(noneOf)
               /\ passed(negate(noneOf)) = passed(cur)
               /\ passed(invert(noneOf)) = passed(cur)
    /\ (/\ last.op = "test"
        /\ heap[last.ret].kind = "SimpleNegatedAssertion"
        /\ heap[heap[last.ret].assertion].kind = "AnyOfAssertion"
        /\ cur # RecursionError) =>
           passed(cur) = passed(NoneOfTestResult(
                            ChildResults(heap, heap[last.ret].assertion, last.subject)))

\* C7 witness: the negation of an any-of assertion over a child that fails and
\* a child that passes has just been tested, and its result has not passed.
C7_Witness ==
    /\ last.op = "test"
    /\ heap[last.ret].kind = "SimpleNegatedAssertion"
    /\ heap[heap[last.ret].assertion].kind = "AnyOfAssertion"
    /\ LET results == ChildResults(heap, heap[last.ret].assertion, last.subject)
       IN  /\ Len(results) = 2
           /\ ~passed(results[1]) /\ passed(results[2])
    /\ cur.kind = "NegatedResult"
    /\ ~passed(cur)

\* not_(not_(a)), from the heap h.
NotNot(h, a) == not_(not_(h, a).heap, not_(h, a).ret)

InPlaceCall ==
    \/ last'.op = "and_" /\ heap[last'.self].kind = "AllOfAssertion"
    \/ last'.op = "or_" /\ heap[last'.self].kind = "AnyOfAssertion"

\* C9: and_ on an all-of assertion and or_ on an any-of assertion return the
\* object they were called on and build no object; the object's child list is
\* its old list followed by the operand's children when the operand is of the
\* same combinator kind and by the operand itself otherwise; every other
\* object is unchanged, so the reference held before the call shows the
\* extended list.
C9_BuilderIdentity ==
    [][InPlaceCall =>
          LET self == last'.self
              other == last'.other
          IN  /\ last'.ret = self
              /\ Len(heap') = Len(heap)
              /\ heap'[self].kind = heap[self].kind
              /\ heap'[self].assertions =
                    heap[self].assertions \o
                        (IF heap[other].kind = heap[self].kind
                         THEN heap[other].assertions
                         ELSE <<other>>)
              /\ \A o \in 1..Len(heap) : o # self => heap'[o] = heap[o]]_vars

\* C9 witness: and_ on an all-of assertion with one child has just returned
\* that same object, which now has a second child, a leaf.
C9_Witness ==
    /\ last.op = "and_"
    /\ last.ret = last.self
    /\ heap[last.self].kind = "AllOfAssertion"
    /\ Len(heap[last.self].assertions) = 2
    /\ heap[last.other].kind = "IsEqualTo"
    /\ heap[last.self].assertions[2] = last.other

\* The lines of a text.
RECURSIVE Lines(_, _)
Lines(text, line) ==
    IF text = <<>> THEN {line}
    ELSE IF Head(text) = NL THEN {line} \cup Lines(Tail(text), <<>>)
    ELSE Lines(Tail(text), Append(line, Head(text)))

\* A line without its indentation and its "AND ".
RECURSIVE Stripped(_)
Stripped(line) ==
    IF line # <<>> /\ Head(line) \in {tab, "AND "} THEN Stripped(Tail(line))
    ELSE line

\* The headings the composite results put above their children's reasons.
Headings ==
    {<<"Some assertions failed:">>, <<"Every assertion failed: ">>,
     <<"Some assertions passed:">>, <<"Some assertions passed: ">>}

\* The failure reasons of a result: the lines of its failure text other than
\* the headings, without indentation; a passed result has none.
Fragments(r) ==
    IF passed(r) THEN {}
    ELSE {Stripped(l) : l \in Lines(failure_message(r), <<>>)} \ Headings

\* What a caller sees of a.test(act).
Outcome(h, a, act) ==
    IF test(h, a, act) = RecursionError THEN [raised |-> "RecursionError"]
    ELSE [passed |-> passed(test(h, a, act)),
          fragments |-> Fragments(test(h, a, act))]

\* (A and_ B) and_ C
LeftNested(h, A, B, C) == and_(and_(h, A, B).heap, and_(h, A, B).ret, C)

\* A and_ (B and_ C)
RightNested(h, A, B, C) == and_(and_(h, B, C).heap, A, and_(h, B, C).ret)

\* AllOfAssertion(A, B, C)
Flat(h, A, B, C) == New(h, AllOfAssertion(<<A, B, C>>))

\* C10: for all assertions A, B, C and every subject, (A and_ B) and_ C,
\* A and_ (B and_ C) and AllOfAssertion(A, B, C) test to the same passed and
\* the same set of failure reasons.
C10_Associativity ==
    \A A \in 1..Len(heap), B \in 1..Len(heap), C \in 1..Len(heap), act \in Subjects :
        LET e1 == LeftNested(heap, A, B, C)
            e2 == RightNested(heap, A, B, C)
            e3 == Flat(heap, A, B, C)
        IN  /\ Outcome(e1.heap, e1.ret, act) = Outcome(e3.heap, e3.ret, act)
            /\ Outcome(e2.heap, e2.ret, act) = Outcome(e3.heap, e3.ret, act)

\* C11: when an all-of or any-of assertion has just been tested and the test
\* ended, test() was called on every entry of its child list once, in list
\* order, whatever the earlier children returned, and the result holds the
\* children's results, one per entry, in that order.
C11_EagerEvaluation ==
    (/\ last.op = "test"
     /\ IsCombinator(heap[last.ret])
     /\ cur # RecursionError) =>
        /\ last.evaluated = heap[last.ret].assertions
        /\ cur.kind = (IF heap[last.ret].kind = "AllOfAssertion"
                       THEN "AllOfTestResult" ELSE "AnyOfTestResult")
        /\ cur.results = ChildResults(heap, last.ret, last.subject)

\* C11 witness: an all-of assertion whose first child fails and whose second
\* child passes has just been tested; both children were evaluated.
C11_Witness ==
    /\ last.op = "test"
    /\ heap[last.ret].kind = "AllOfAssertion"
    /\ cur.kind = "AllOfTestResult"
    /\ Len(cur.results) = 2
    /\ ~passed(cur.results[1]) /\ passed(cur.results[2])
    /\ Len(last.evaluated) = 2

\* An all-of, any-of or none-of result over no children.
IsEmptyComposite(r) == IsComposite(r) /\ r.results = <<>>

\* C12: no all-of or any-of assertion with an empty child list is ever built,
\* and no test returns a composite result over an empty list.
C12_EmptyCompositeRaises ==
    /\ \A a \in 1..Len(heap) :
          IsCombinator(heap[a]) => heap[a].assertions # <<>>
    /\ (last.op = "test" /\ cur # RecursionError) => ~IsEmptyComposite(cur)

ChildrenOf(h, a) ==
    CASE IsCombinator(h[a]) -> {h[a].assertions[i] : i \in 1..Len(h[a].assertions)}
      [] h[a].kind = "SimpleNegatedAssertion" -> {h[a].assertion}
      [] OTHER -> {}

ResultKinds ==
    {"BasicResult", "NegatedResult", "PrefacedResult",
     "AllOfTestResult", "AnyOfTestResult", "NoneOfTestResult"}

\* C15: when an all-of, any-of or negated assertion whose children all return
\* results has just been tested, the test raised nothing and returned a
\* result; the result has not passed when a child of the all-of failed, when
\* every child of the any-of failed, or when the negated assertion passed.
C15_FailureIsData ==
    (/\ last.op = "test"
     /\ heap[last.ret].kind \in
            {"AllOfAssertion", "AnyOfAssertion", "SimpleNegatedAssertion"}
     /\ \A c \in ChildrenOf(heap, last.ret) :
            test(heap, c, last.subject) # RecursionError) =>
        /\ cur.kind \in ResultKinds
        /\ passed(cur) \in BOOLEAN
        /\ LET failedChildren ==
                   {c \in ChildrenOf(heap, last.ret) :
                       ~passed(test(heap, c, last.subject))}
           IN  CASE heap[last.ret].kind = "AllOfAssertion" ->
                       (failedChildren # {} => ~passed(cur))
                 [] heap[last.ret].kind = "AnyOfAssertion" ->
                       (failedChildren = ChildrenOf(heap, last.ret) => ~passed(cur))
                 [] OTHER -> (failedChildren = {} => ~passed(cur))

\* C15 witness: an all-of assertion with a passing and a failing child has
\* just been tested and returned a result that has not passed.
C15_Witness ==
    /\ last.op = "test"
    /\ heap[last.ret].kind = "AllOfAssertion"
    /\ cur.kind = "AllOfTestResult"
    /\ Len(cur.results) = 2
    /\ passed(cur.results[1]) /\ ~passed(cur.results[2])
    /\ ~passed(cur)

\* C18: no negation wrapper directly wraps another negation wrapper.
C18_NoDoubleWrapping ==
    \A a \in 1..Len(heap) :
        heap[a].kind = "SimpleNegatedAssertion" =>
            heap[heap[a].assertion].kind # "SimpleNegatedAssertion"

\* The step is self.or_(other) on an all-of assertion or self.and_(other) on
\* an any-of assertion.
MixedCall ==
    \/ last'.op = "or_" /\ heap[last'.self].kind = "AllOfAssertion"
    \/ last'.op = "and_" /\ heap[last'.self].kind = "AnyOfAssertion"

C27_NegateIsInvert ==
    (last.op = "test" /\ cur # RecursionError) =>
        /\ SameContent(negate(cur), invert(cur))
        /\ (/\ heap[last.ret].kind = "SimpleNegatedAssertion"
            /\ heap[heap[last.ret].assertion].kind = "AnyOfAssertion") =>
               cur = NoneOfTestResult(
                         ChildResults(heap, heap[last.ret].assertion, last.subject))

\* The objects reached from the objects of the set from through at most n
\* further child or wrapper links.
RECURSIVE ReachedWithin(_, _, _)
ReachedWithin(h, from, n) ==
    IF n = 0 THEN from
    ELSE ReachedWithin(h, from \cup UNION {ChildrenOf(h, b) : b \in from}, n - 1)

\* The objects a reaches through one or more links.
Reach(h, a) == ReachedWithin(h, ChildrenOf(h, a), Len(h))

\* C28: no assertion reaches itself through child lists and negation
\* wrappers, and no test runs into an endless recursion.
C28_Acyclic ==
    /\ \A a \in 1..Len(heap) : a \notin Reach(heap, a)
    /\ last.op = "test" => cur # RecursionError

\* What a caller sees of a result: that the test raised, or the passed and the
\* two texts.
Content(r) ==
    IF r = RecursionError THEN [raised |-> "RecursionError"]
    ELSE [passed |-> passed(r), failure |-> failure_message(r),
          negated |-> negated_message(r)]

\* C29: a call X.and_(W) leaves every assertion that holds X as a child or as
\* its wrapped assertion testing to the same passed and the same texts as
\* before the call, for every subject.
C29_BuiltEarlierUnaffected ==
    [][last'.op = "and_" =>
          \A N \in 1..Len(heap), s \in Subjects :
              (N # last'.self /\ last'.self \in ChildrenOf(heap, N)) =>
                  Content(test(heap', N, s)) = Content(test(heap, N, s))]_vars

(***************************************************************************)
(* Results and messages as objects: what later calls are required to leave  *)
(***************************************************************************)

\* C21: no call of the library changes a result object or a list object that
\* exists: after every test(), and_, or_, ~, negate() and reading of passed
\* or of a message, every result read again has the children, the passed and
\* the texts it had; ~ and negate() return a new object, or, for ~ of a
\* negated result, the result it wraps.
C21_ResultsImmutable ==
    [][last'.op # "append" =>
          /\ Len(store') >= Len(store)
          /\ \A r \in 1..Len(store) :
                /\ store'[r] = store[r]
                /\ r \in ResultsIn(store) =>
                      ResultAt(store', r, actual') = ResultAt(store, r, actual)
          /\ last'.op \in {"invert", "negate"} =>
                \/ last'.ret = Len(store) + 1
                \/ /\ last'.op = "invert"
                   /\ store[last'.arg].kind = "NegatedResult"
                   /\ last'.ret = store[last'.arg].original]_vars

\* C21 witness: the all-of assertion was tested when it had one child, and
\* and_ has just given it a second one; the result still has one child.
C21_Witness ==
    /\ last.op = "and_"
    /\ heap[last.self].kind = "AllOfAssertion"
    /\ Len(heap[last.self].assertions) = 2
    /\ \E r \in ResultsIn(store) :
          /\ store[r].kind = "AllOfTestResult"
          /\ Len(store[store[r].results].items) = 1

\* C23: a test() call and a reading of passed build no string.
C23_NoStringBuilt ==
    last.op \in {"test", "passed"} => last.built = 0

\* C24: every step, a call of a message and a change of the subject list
\* included, leaves the text each message of each basic result renders as it
\* was.
C24_MessageFixed ==
    [][\A r \in ResultsIn(store) :
          store[r].kind = "BasicResult" =>
              /\ message(store'[r].failure_message, actual')
                    = message(store[r].failure_message, actual)
              /\ message(store'[r].negated_message, actual')
                    = message(store[r].negated_message, actual)]_vars

\* C24 witness: failure_message() has just been called on a basic result made
\* when the subject was [1]; the subject is [1, 2] now and the message still
\* renders [1].
C24_Witness ==
    /\ last.op = "failure_message"
    /\ store[last.ret].kind = "BasicResult"
    /\ actual = <<1, 2>>
    /\ store[last.ret].failure_message.args[1] = Str(_to_str(<<1>>))
    /\ message(store[last.ret].failure_message, actual)
           = <<_to_str(<<1>>), " does not contain ", _to_str(2)>>

(***************************************************************************)
(* The Tester facade: what a call is required to raise                     *)
(***************************************************************************)

\* C13: Tester.all, Tester.any and Tester.none called with no matchers raise
\* AssertionError "Nothing is tested" and build no result, whatever the
\* subject and the override message.
C13_NothingIsTested ==
    (last.op \in {"Tester.all", "Tester.any", "Tester.none"}
        /\ last.matchers = <<>>) =>
        /\ last.raised = AssertionError(<<"Nothing is tested">>)
        /\ cur = NoResult

\* C13 witness: Tester.none has just been called with no matchers and an
\* override template, and raised AssertionError.
C13_Witness ==
    /\ last.op = "Tester.none"
    /\ last.matchers = <<>>
    /\ Truthy(last.msg)
    /\ last.raised.type = "AssertionError"

\* C16: a Tester call whose result failed raises AssertionError, with the
\* override template formatted with the subject as its message when one is
\* given; a call whose result passed raises nothing.
C16_FailureRaisesAssertionError ==
    (Called /\ cur # NoResult) =>
        IF failed(cur)
        THEN /\ last.raised.type = "AssertionError"
             /\ last.msg.given =>
                   last.raised.message =
                       format(last.msg.template, <<ToString(last.subject)>>)
        ELSE last.raised = NoError

\* C17: a not_ call on a HasPropertyThat assertion returns no value.
C17_NegationFailsFast ==
    (last.op = "not_" /\ heap[last.self].kind = "HasPropertyThat") =>
        "ret" \notin DOMAIN last

=============================================================================
